---------------------------- MODULE Spec2Model ----------------------------
(***************************************************************************)
(* A model of dcos/cli/app/main.py: the `dcos app` command handlers, the   *)
(* relative/absolute version resolution (_calculate_version, _parse_int)   *)
(* and the key=value descriptor construction of `update` and `start`.      *)
(*                                                                         *)
(* One behaviour is one process: main() dispatches to exactly one handler, *)
(* which runs to its return.  A Python string is a sequence of lexemes     *)
(* (single characters for version and instance tokens), a Python `None`    *)
(* is the empty optional <<>> and any other value x the optional <<x>>; a  *)
(* `(value, error)` pair is a 2-tuple of optionals.  Every answer of an    *)
(* external collaborator (the Marathon client, util, jsonitem, stdin) is   *)
(* an input of the handler, and `calls` records each call with its answer  *)
(* in the order the handler makes them.                                    *)
(***************************************************************************)
EXTENDS Integers, Sequences, FiniteSets, TLC

VARIABLES
    pc,         \* "start" before main() dispatches, "done" after the handler returned
    command,    \* the docopt arguments of this process: verb and operands
    calls,      \* the collaborator calls made so far, each with its answer
    published,  \* what emitter.publish was given, in order
    status,     \* the process status the handler returned (optional: None when missing)
    resolved    \* the (value, error) pair _calculate_version returned, if it was called

vars == <<pc, command, calls, published, status, resolved>>

----------------------------------------------------------------------------
\* Bounds of the model.

\* Longest <app-version> / <instances> token, in characters.
MaxTokenLen == 3
\* Longest version history the lookup answers with.
MaxHistory == 3
\* Most <properties> items on one command line.
MaxItems == 3
\* Largest instance count a descriptor from Marathon carries.
MaxInstances == 2

----------------------------------------------------------------------------
\* Python values.

None == <<>>
Some(x) == <<x>>
IsNone(x) == x = None
Get(x) == x[1]

\* The (value, error) pairs the code base passes around.
Ok(v) == <<Some(v), None>>
Fail(e) == <<None, Some(e)>>

\* errors.DefaultError(message): the message template and the rendered arguments.
DefaultError(message, args) == [error |-> message, args |-> args]

\* str.format: the template renders as many arguments as it has placeholders,
\* in order; surplus arguments are dropped.
Format(placeholders, args) == SubSeq(args, 1, placeholders)

SeqsUpTo(S, n) == UNION {[1..k -> S] : k \in 0..n}

----------------------------------------------------------------------------
\* The inputs explored.

Chars == {"-", "+", " ", "0", "1", "2", "T"}
Tokens == SeqsUpTo(Chars, MaxTokenLen)

AppIds == {<<"a">>, <<"b">>}

\* Absolute version identifiers Marathon answers with.
Versions == {<<"T", "1">>, <<"T", "2">>}
Histories == SeqsUpTo(Versions, MaxHistory)

ClientError == DefaultError("marathon error", <<>>)

----------------------------------------------------------------------------
\* int(string), Python's base-10 integer literal: surrounding whitespace is
\* stripped, one optional sign, then one or more digits.

Whitespace == {" "}
Digits == {"0", "1", "2", "3", "4", "5", "6", "7", "8", "9"}

DigitValue(c) ==
    CASE c = "0" -> 0 [] c = "1" -> 1 [] c = "2" -> 2 [] c = "3" -> 3
      [] c = "4" -> 4 [] c = "5" -> 5 [] c = "6" -> 6 [] c = "7" -> 7
      [] c = "8" -> 8 [] c = "9" -> 9

RECURSIVE LStrip(_)
LStrip(s) ==
    IF s # <<>> /\ Head(s) \in Whitespace THEN LStrip(Tail(s)) ELSE s

RECURSIVE RStrip(_)
RStrip(s) ==
    IF s # <<>> /\ s[Len(s)] \in Whitespace
    THEN RStrip(SubSeq(s, 1, Len(s) - 1))
    ELSE s

Strip(s) == RStrip(LStrip(s))

HasSign(s) == s # <<>> /\ Head(s) \in {"+", "-"}
Unsigned(s) == IF HasSign(s) THEN Tail(s) ELSE s

IsIntLiteral(string) ==
    LET body == Unsigned(Strip(string))
    IN  body # <<>> /\ \A i \in 1..Len(body) : body[i] \in Digits

RECURSIVE Magnitude(_)
Magnitude(digits) ==
    IF digits = <<>> THEN 0
    ELSE 10 * Magnitude(SubSeq(digits, 1, Len(digits) - 1))
         + DigitValue(digits[Len(digits)])

IntValue(string) ==
    LET s == Strip(string)
        m == Magnitude(Unsigned(s))
    IN  IF HasSign(s) /\ Head(s) = "-" THEN 0 - m ELSE m

ParseIntError == DefaultError("Error parsing string as int", <<>>)

_parse_int(string) ==
    IF IsIntLiteral(string)
    THEN Ok(IntValue(string))
    ELSE Fail(ParseIntError)

----------------------------------------------------------------------------
\* _calculate_version(client, app_id, version).  `client` carries the answer
\* the Marathon client gives to each method; the operator yields the returned
\* pair and the client calls made.

VersionsCall(app_id, max_count, answer) ==
    [op |-> "get_app_versions", app_id |-> app_id, max_count |-> max_count,
     answer |-> answer]

\* Variant: the message reports the requested offset as the count.
NotEnoughVersionsReportsRequested(app_id, versions, value) ==
    DefaultError("Application {!r} only has {!r} version(s).",
                 Format(2, <<app_id, value, Len(versions)>>))

NotEnoughVersions(app_id, versions, value) ==
    DefaultError("Application {!r} only has {!r} version(s).",
                 Format(2, <<app_id, Len(versions), value>>))

RelativeMustBeNegative(version) ==
    DefaultError("Relative versions must be negative: {}", Format(1, <<version>>))

\* Variant: the entry one position more recent is returned.
RelativeVersionIndexBelow(client, app_id, parsed) ==
    LET value == (0 - 1) * parsed
        answer == client.get_app_versions
        versions == Get(answer[1])
        err == answer[2]
        call == <<VersionsCall(app_id, value + 1, answer)>>
    IN  IF ~IsNone(err)
        THEN [result |-> <<None, err>>, calls |-> call]
        ELSE IF Len(versions) <= value
        THEN [result |-> Fail(NotEnoughVersions(app_id, versions, value)),
              calls |-> call]
        ELSE [result |-> Ok(versions[value]), calls |-> call]

\* Variant: the lookup is asked for n entries only.
RelativeVersionAsksN(client, app_id, parsed) ==
    LET value == (0 - 1) * parsed
        answer == client.get_app_versions
        versions == Get(answer[1])
        err == answer[2]
        call == <<VersionsCall(app_id, value, answer)>>
    IN  IF ~IsNone(err)
        THEN [result |-> <<None, err>>, calls |-> call]
        ELSE IF Len(versions) <= value
        THEN [result |-> Fail(NotEnoughVersions(app_id, versions, value)),
              calls |-> call]
        ELSE [result |-> Ok(versions[value + 1]), calls |-> call]

\* Lines 436-450: the branch taken by a negative integer token.
RelativeVersion(client, app_id, parsed) ==
    LET value == (0 - 1) * parsed
        answer == client.get_app_versions
        versions == Get(answer[1])
        err == answer[2]
        call == <<VersionsCall(app_id, value + 1, answer)>>
    IN  IF ~IsNone(err)
        THEN [result |-> <<None, err>>, calls |-> call]
        ELSE IF Len(versions) <= value
        THEN [result |-> Fail(NotEnoughVersions(app_id, versions, value)),
              calls |-> call]
        ELSE [result |-> Ok(versions[value + 1]), calls |-> call]

\* Variant: zero counts as a relative version.
_calculate_version_zero_relative(client, app_id, version) ==
    LET parsed == _parse_int(version)
        value == parsed[1]
        err == parsed[2]
    IN  IF IsNone(err) /\ Get(value) <= 0
        THEN RelativeVersion(client, app_id, Get(value))
        ELSE IF IsNone(err)
        THEN [result |-> Fail(RelativeMustBeNegative(version)), calls |-> <<>>]
        ELSE [result |-> Ok(version), calls |-> <<>>]

\* Variant: an absolute version is returned without surrounding blanks.
_calculate_version_stripped(client, app_id, version) ==
    LET parsed == _parse_int(version)
        value == parsed[1]
        err == parsed[2]
    IN  IF IsNone(err) /\ Get(value) < 0
        THEN RelativeVersion(client, app_id, Get(value))
        ELSE IF IsNone(err)
        THEN [result |-> Fail(RelativeMustBeNegative(version)), calls |-> <<>>]
        ELSE [result |-> Ok(Strip(version)), calls |-> <<>>]

_calculate_version(client, app_id, version) ==
    LET parsed == _parse_int(version)
        value == parsed[1]
        err == parsed[2]
    IN  IF IsNone(err) /\ Get(value) < 0
        THEN RelativeVersion(client, app_id, Get(value))
        ELSE IF IsNone(err)
        THEN [result |-> Fail(RelativeMustBeNegative(version)), calls |-> <<>>]
        ELSE [result |-> Ok(version), calls |-> <<>>]

----------------------------------------------------------------------------
\* What a handler leaves behind: its return value, the collaborator calls it
\* made, what it published, and (for show) the pair the resolution returned.

Return(code, made, output) ==
    [status |-> code, calls |-> made, published |-> output, resolved |-> None]

Text(text, args) == [text |-> text, args |-> args]

GetAppCall(app_id, version, answer) ==
    [op |-> "get_app", app_id |-> app_id, version |-> version, answer |-> answer]

UpdateCall(app_id, payload, force, answer) ==
    [op |-> "update_app", app_id |-> app_id, payload |-> payload,
     force |-> force, answer |-> answer]

ValidateCall(app_json, answer) ==
    [op |-> "validate_json", app_json |-> app_json, answer |-> answer]

ParseItemCall(json_item, answer) ==
    [op |-> "parse_json_item", json_item |-> json_item, answer |-> answer]

LoadJsonsCall(answer) == [op |-> "load_jsons", answer |-> answer]

TtyError(example) ==
    Text("We currently don't support reading from the TTY.", <<example>>)

\* Descriptor keys are strings.
IdKey == <<"id">>
InstancesKey == <<"instances">>
CmdKey == <<"cmd">>

----------------------------------------------------------------------------
\* _info, _add, _list, _remove.

_info == Return(Some(0), <<>>, <<Text("Deploy and manage applications on Apache Mesos", <<>>)>>)

_add(client, stdin) ==
    IF stdin.isatty
    THEN Return(Some(1), <<>>, <<TtyError("dcos app add < app_resource.json")>>)
    ELSE LET loaded == stdin.load_jsons
             c1 == <<LoadJsonsCall(loaded)>>
         IN  IF ~IsNone(loaded[2])
             THEN Return(Some(1), c1, <<Get(loaded[2])>>)
             ELSE LET added == client.add_app
                      c2 == c1 \o <<[op |-> "add_app",
                                     payload |-> Get(loaded[1]),
                                     answer |-> added]>>
                  IN  IF ~IsNone(added[2])
                      THEN Return(Some(1), c2, <<Get(added[2])>>)
                      ELSE Return(Some(0), c2, <<>>)

_list(client) ==
    LET got == client.get_apps
        c1 == <<[op |-> "get_apps", answer |-> got]>>
    IN  IF ~IsNone(got[2])
        THEN Return(Some(1), c1, <<Get(got[2])>>)
        ELSE LET apps == Get(got[1])
                 ids == [i \in 1..Len(apps) |-> Text("app id", <<apps[i].id>>)]
             IN  IF apps = <<>>
                 THEN Return(Some(0), c1, <<Text("No applications to list.", <<>>)>>)
                 ELSE Return(Some(0), c1, ids)

_remove(client, app_id, force) ==
    LET err == client.remove_app
        c1 == <<[op |-> "remove_app", app_id |-> app_id, force |-> force,
                 answer |-> err]>>
    IN  IF ~IsNone(err)
        THEN Return(Some(1), c1, <<Get(err)>>)
        ELSE Return(Some(0), c1, <<>>)

----------------------------------------------------------------------------
\* _show(app_id, version): `version` is None without --app-version.

_show(client, app_id, version) ==
    LET cv == IF IsNone(version)
              THEN [result |-> <<version, None>>, calls |-> <<>>]
              ELSE _calculate_version(client, app_id, Get(version))
        pair == IF IsNone(version) THEN None ELSE Some(cv.result)
    IN  IF ~IsNone(cv.result[2])
        THEN [Return(Some(1), cv.calls, <<Get(cv.result[2])>>)
                EXCEPT !.resolved = pair]
        ELSE LET got == client.get_app
                 c2 == cv.calls \o <<GetAppCall(app_id, cv.result[1], got)>>
             IN  IF ~IsNone(got[2])
                 THEN [Return(Some(1), c2, <<Get(got[2])>>)
                         EXCEPT !.resolved = pair]
                 ELSE [Return(Some(0), c2, <<Text("app", <<Get(got[1])>>)>>)
                         EXCEPT !.resolved = pair]

----------------------------------------------------------------------------
\* _start(app_id, instances, force): `instances` is None when omitted.

AlreadyStarted(app_id, instances) ==
    Text("Application {!r} already started: {!r} instances.", <<app_id, instances>>)

MustBePositive(instances) ==
    Text("The number of instances must be positive: {!r}.", <<instances>>)

Created(deployment) == Text("Created deployment {}", <<deployment>>)

\* Variant: the validator's verdict is not looked at.
SubmitUnvalidated(client, util, app_id, app_json, force, before) ==
    LET err == util.validate_json
        c2 == before \o <<ValidateCall(app_json, err)>>
    IN  LET sent == client.update_app
                 c3 == c2 \o <<UpdateCall(app_id, app_json, force, sent)>>
        IN  IF ~IsNone(sent[2])
            THEN Return(Some(1), c3, <<Get(sent[2])>>)
            ELSE Return(Some(0), c3, <<Created(Get(sent[1]))>>)

\* Lines 265-277: validate the descriptor, then submit it.
ValidateAndSubmit(client, util, app_id, app_json, force, before) ==
    LET err == util.validate_json
        c2 == before \o <<ValidateCall(app_json, err)>>
    IN  IF ~IsNone(err)
        THEN Return(Some(1), c2, <<Get(err)>>)
        ELSE LET sent == client.update_app
                 c3 == c2 \o <<UpdateCall(app_id, app_json, force, sent)>>
             IN  IF ~IsNone(sent[2])
                 THEN Return(Some(1), c3, <<Get(sent[2])>>)
                 ELSE Return(Some(0), c3, <<Created(Get(sent[1]))>>)

_start(client, util, app_id, instances, force) ==
    LET got == client.get_app
        c1 == <<GetAppCall(app_id, None, got)>>
    IN  IF ~IsNone(got[2])
        THEN Return(Some(1), c1, <<Get(got[2])>>)
        ELSE IF Get(got[1]).instances > 0
        THEN Return(Some(1), c1,
                    <<AlreadyStarted(app_id, Get(got[1]).instances)>>)
        ELSE LET parsed == IF IsNone(instances)
                           THEN Ok(1)
                           ELSE _parse_int(Get(instances))
             IN  IF ~IsNone(parsed[2])
                 THEN Return(Some(1), c1, <<Get(parsed[2])>>)
                 ELSE IF ~IsNone(instances) /\ Get(parsed[1]) <= 0
                 THEN Return(Some(1), c1, <<MustBePositive(Get(parsed[1]))>>)
                 ELSE ValidateAndSubmit(
                          client, util, app_id,
                          (IdKey :> app_id) @@ (InstancesKey :> Get(parsed[1])),
                          force, c1)

----------------------------------------------------------------------------
\* _stop(app_id, force).  The last statement of the success path publishes
\* the deployment; the function then ends without a return statement.

AlreadyStopped(app_id, instances) ==
    Text("Application {!r} already stopped: {!r} instances.", <<app_id, instances>>)

\* Variant: only a negative count means already stopped.
_stop_unless_negative(client, app_id, force) ==
    LET got == client.get_app
        c1 == <<GetAppCall(app_id, None, got)>>
    IN  IF ~IsNone(got[2])
        THEN Return(Some(1), c1, <<Get(got[2])>>)
        ELSE IF Get(got[1]).instances < 0
        THEN Return(Some(1), c1,
                    <<AlreadyStopped(app_id, Get(got[1]).instances)>>)
        ELSE LET app_json == (InstancesKey :> 0)
                 sent == client.update_app
                 c2 == c1 \o <<UpdateCall(app_id, app_json, force, sent)>>
             IN  IF ~IsNone(sent[2])
                 THEN Return(Some(1), c2, <<Get(sent[2])>>)
                 ELSE Return(None, c2, <<Created(Get(sent[1]))>>)

_stop(client, app_id, force) ==
    LET got == client.get_app
        c1 == <<GetAppCall(app_id, None, got)>>
    IN  IF ~IsNone(got[2])
        THEN Return(Some(1), c1, <<Get(got[2])>>)
        ELSE IF Get(got[1]).instances <= 0
        THEN Return(Some(1), c1,
                    <<AlreadyStopped(app_id, Get(got[1]).instances)>>)
        ELSE LET app_json == (InstancesKey :> 0)
                 sent == client.update_app
                 c2 == c1 \o <<UpdateCall(app_id, app_json, force, sent)>>
             IN  IF ~IsNone(sent[2])
                 THEN Return(Some(1), c2, <<Get(sent[2])>>)
                 ELSE Return(None, c2, <<Created(Get(sent[1]))>>)

----------------------------------------------------------------------------
\* jsonitem.parse_json_item(json_item, schema) and the schema it reads.

\* The declared type of each property of the schema resource.
Schema ==
    (IdKey :> "string") @@ (CmdKey :> "string") @@ (InstancesKey :> "integer")

\* Position of the first "=" of the item, 0 when it has none.
RECURSIVE FirstSeparator(_, _)
FirstSeparator(json_item, from) ==
    IF from > Len(json_item) THEN 0
    ELSE IF json_item[from] = "=" THEN from
    ELSE FirstSeparator(json_item, from + 1)

\* The value of a raw token read as the declared type.
parse_value(raw, type) ==
    CASE type = "string" -> Ok(raw)
      [] type = "integer" ->
            IF IsIntLiteral(raw)
            THEN Ok(IntValue(raw))
            ELSE Fail(DefaultError("TypeMismatch", <<raw, type>>))

parse_json_item(json_item, schema) ==
    LET at == FirstSeparator(json_item, 1)
        key == SubSeq(json_item, 1, at - 1)
        raw == SubSeq(json_item, at + 1, Len(json_item))
    IN  IF at = 0
        THEN Fail(DefaultError("MalformedProperty", <<json_item>>))
        ELSE IF key \notin DOMAIN schema
        THEN Fail(DefaultError("UnknownProperty", <<key>>))
        ELSE LET parsed == parse_value(raw, schema[key])
             IN  IF ~IsNone(parsed[2])
                 THEN parsed
                 ELSE Ok(<<key, Get(parsed[1])>>)

----------------------------------------------------------------------------
\* _update(app_id, json_items, force) and _update_from_stdin(app_id, force).

_update_from_stdin(client, stdin, app_id, force) ==
    LET loaded == stdin.load_jsons
        c1 == <<LoadJsonsCall(loaded)>>
    IN  IF ~IsNone(loaded[2])
        THEN Return(Some(1), c1, <<Get(loaded[2])>>)
        ELSE LET sent == client.update_app
                 c2 == c1 \o <<UpdateCall(app_id, Get(loaded[1]), force, sent)>>
             IN  IF ~IsNone(sent[2])
                 THEN Return(Some(1), c2, <<Get(sent[2])>>)
                 ELSE Return(Some(0), c2, <<>>)

\* Variant: the descriptor starts without the application id.
InitialDescriptorEmpty(app_id) == [k \in {} |-> app_id]

\* Lines 357-360: the descriptor before the first item.
InitialDescriptor(app_id) == (IdKey :> app_id)

SpecifiedTwice(key) ==
    Text("Key {!r} was specified more than once", <<key>>)

\* Variant: a repeated key overwrites the earlier value.
RECURSIVE MergeItemsLastWins(_, _, _, _)
MergeItemsLastWins(app_json, json_items, schema, made) ==
    IF json_items = <<>>
    THEN [failed |-> None, app_json |-> app_json, calls |-> made]
    ELSE LET json_item == Head(json_items)
             parsed == parse_json_item(json_item, schema)
             c == made \o <<ParseItemCall(json_item, parsed)>>
         IN  IF ~IsNone(parsed[2])
             THEN [failed |-> parsed[2], app_json |-> app_json, calls |-> c]
             ELSE LET key == Get(parsed[1])[1]
                      value == Get(parsed[1])[2]
                  IN  MergeItemsLastWins((key :> value) @@ app_json,
                                      Tail(json_items), schema, c)

\* Lines 362-374, the loop over json_items: the descriptor after the last
\* item (app_json), or the message of the item the loop returned at (failed).
RECURSIVE MergeItems(_, _, _, _)
MergeItems(app_json, json_items, schema, made) ==
    IF json_items = <<>>
    THEN [failed |-> None, app_json |-> app_json, calls |-> made]
    ELSE LET json_item == Head(json_items)
             parsed == parse_json_item(json_item, schema)
             c == made \o <<ParseItemCall(json_item, parsed)>>
         IN  IF ~IsNone(parsed[2])
             THEN [failed |-> parsed[2], app_json |-> app_json, calls |-> c]
             ELSE LET key == Get(parsed[1])[1]
                      value == Get(parsed[1])[2]
                  IN  IF key \in DOMAIN app_json
                      THEN [failed |-> Some(SpecifiedTwice(key)),
                            app_json |-> app_json, calls |-> c]
                      ELSE MergeItems(app_json @@ (key :> value),
                                      Tail(json_items), schema, c)

_update(client, util, stdin, app_id, json_items, force) ==
    LET got == client.get_app
        c1 == <<GetAppCall(app_id, None, got)>>
    IN  IF ~IsNone(got[2])
        THEN Return(Some(1), c1, <<Get(got[2])>>)
        ELSE IF Len(json_items) = 0
        THEN IF stdin.isatty
             THEN Return(Some(1), c1,
                         <<TtyError("dcos app update < app_update.json")>>)
             ELSE LET r == _update_from_stdin(client, stdin, app_id, force)
                  IN  [r EXCEPT !.calls = c1 \o r.calls]
        ELSE LET merged == MergeItems(InitialDescriptor(app_id), json_items, Schema, c1)
             IN  IF ~IsNone(merged.failed)
                 THEN Return(Some(1), merged.calls, <<Get(merged.failed)>>)
                 ELSE ValidateAndSubmit(client, util, app_id, merged.app_json,
                                        force, merged.calls)

----------------------------------------------------------------------------
\* The answers of the collaborators.

AppAnswersFor(app_id) ==
    {Fail(ClientError)}
    \cup {Ok([id |-> app_id, instances |-> i]) : i \in 0..MaxInstances}

VersionsAnswers == {Fail(ClientError)} \cup {Ok(h) : h \in Histories}

Deployments == {"d1"}
UpdateAnswers == {Fail(ClientError)} \cup {Ok(d) : d \in Deployments}

ValidateAnswers == {None, Some(DefaultError("SchemaViolation", <<>>))}

\* JSON documents read from stdin.
Documents == {(InstancesKey :> 2), (IdKey :> <<"a">>) @@ (CmdKey :> <<"x">>)}
LoadAnswers ==
    {Fail(DefaultError("Error loading JSON", <<>>))} \cup {Ok(d) : d \in Documents}
Stdins == [isatty : BOOLEAN, load_jsons : LoadAnswers]
\* A terminal with nothing to read.
ClosedStdin == [isatty |-> TRUE, load_jsons |-> Fail(DefaultError("Error loading JSON", <<>>))]

AppsAnswers ==
    {Fail(ClientError), Ok(<<>>)}
    \cup {Ok(<<[id |-> a, instances |-> 1]>>) : a \in AppIds}
    \cup {Ok(<<[id |-> <<"a">>, instances |-> 0], [id |-> <<"b">>, instances |-> 1]>>)}

\* <properties> items: key=value over the schema's keys and one outside it,
\* an item without separator, and one whose value holds a second "=".
ItemKeys == {"id", "cmd", "instances", "bogus"}
ItemValues == {<<"1">>, <<"x">>}
Items ==
    {<<k, "=">> \o v : k \in ItemKeys, v \in ItemValues}
    \cup {<<"cmd">>, <<"cmd", "=", "x", "=", "1">>}
ItemLists == SeqsUpTo(Items, MaxItems)

----------------------------------------------------------------------------
\* The process: main() dispatches on the verb and returns what the handler
\* returns.

Finish(args, r) ==
    /\ pc' = "done"
    /\ command' = args
    /\ calls' = r.calls
    /\ published' = r.published
    /\ status' = r.status
    /\ resolved' = r.resolved

Init ==
    /\ pc = "start"
    /\ command = [verb |-> "none"]
    /\ calls = <<>>
    /\ published = <<>>
    /\ status = None
    /\ resolved = None

\* Lines 47-58 and 84-86: the logger cannot be configured, or the arguments
\* name no verb.
MainError ==
    /\ pc = "start"
    /\ \E cause \in {"logger", "usage"} :
          Finish([verb |-> "none", cause |-> cause],
                 Return(Some(1), <<>>, <<DefaultError(cause, <<>>)>>))

DoInfo ==
    /\ pc = "start"
    /\ Finish([verb |-> "info"], _info)

DoAdd ==
    /\ pc = "start"
    /\ \E stdin \in Stdins, added \in UpdateAnswers :
          Finish([verb |-> "add"], _add([add_app |-> added], stdin))

DoList ==
    /\ pc = "start"
    /\ \E got \in AppsAnswers :
          Finish([verb |-> "list"], _list([get_apps |-> got]))

DoRemove ==
    /\ pc = "start"
    /\ \E app_id \in AppIds, force \in BOOLEAN,
          err \in {None, Some(ClientError)} :
          Finish([verb |-> "remove", app_id |-> app_id, force |-> force],
                 _remove([remove_app |-> err], app_id, force))

DoShow ==
    /\ pc = "start"
    /\ \E app_id \in AppIds, version \in {None} \cup {Some(t) : t \in Tokens},
          history \in VersionsAnswers :
       \E got \in AppAnswersFor(app_id) :
          Finish([verb |-> "show", app_id |-> app_id, version |-> version],
                 _show([get_app_versions |-> history, get_app |-> got],
                       app_id, version))

DoStart ==
    /\ pc = "start"
    /\ \E app_id \in AppIds, instances \in {None} \cup {Some(t) : t \in Tokens},
          force \in BOOLEAN, valid \in ValidateAnswers, sent \in UpdateAnswers :
       \E got \in AppAnswersFor(app_id) :
          Finish([verb |-> "start", app_id |-> app_id,
                  instances |-> instances, force |-> force],
                 _start([get_app |-> got, update_app |-> sent],
                        [validate_json |-> valid], app_id, instances, force))

DoStop ==
    /\ pc = "start"
    /\ \E app_id \in AppIds, force \in BOOLEAN, sent \in UpdateAnswers :
       \E got \in AppAnswersFor(app_id) :
          Finish([verb |-> "stop", app_id |-> app_id, force |-> force],
                 _stop([get_app |-> got, update_app |-> sent], app_id, force))

\* update with <properties>: stdin is not read.
DoUpdate ==
    /\ pc = "start"
    /\ \E app_id \in AppIds, json_items \in ItemLists \ {<<>>}, force \in BOOLEAN,
          valid \in ValidateAnswers, sent \in UpdateAnswers :
       \E got \in AppAnswersFor(app_id) :
          Finish([verb |-> "update", app_id |-> app_id,
                  json_items |-> json_items, force |-> force],
                 _update([get_app |-> got, update_app |-> sent],
                         [validate_json |-> valid], ClosedStdin, app_id,
                         json_items, force))

\* update without <properties>: the document comes from stdin.
DoUpdateFromStdin ==
    /\ pc = "start"
    /\ \E app_id \in AppIds, force \in BOOLEAN, sent \in UpdateAnswers,
          stdin \in Stdins :
       \E got \in AppAnswersFor(app_id) :
          Finish([verb |-> "update", app_id |-> app_id,
                  json_items |-> <<>>, force |-> force],
                 _update([get_app |-> got, update_app |-> sent],
                         [validate_json |-> None], stdin, app_id, <<>>, force))

Next ==
    \/ MainError
    \/ DoInfo
    \/ DoAdd
    \/ DoList
    \/ DoRemove
    \/ DoShow
    \/ DoStart
    \/ DoStop
    \/ DoUpdate
    \/ DoUpdateFromStdin

Spec == Init /\ [][Next]_vars

----------------------------------------------------------------------------
\* Reading a finished process.

Done(verb) == pc = "done" /\ command.verb = verb

CallsOf(op) == {i \in 1..Len(calls) : calls[i].op = op}

\* show was given --app-version, so _calculate_version ran on that token.
Resolving == Done("show") /\ ~IsNone(command.version)
Token == Get(command.version)
TokenParses == IsNone(_parse_int(Token)[2])
TokenValue == Get(_parse_int(Token)[1])

\* The lookup answered call i with a history.
Answered(i) == IsNone(calls[i].answer[2])
History(i) == Get(calls[i].answer[1])

----------------------------------------------------------------------------
\* C1: for a token that parses as the negative integer -n and a history
\* (most recent first) returned by the lookup with more than n entries,
\* _calculate_version returns the entry at zero-based index n and no error.
C1_SelectsEntryN ==
    (Resolving /\ TokenParses /\ TokenValue < 0) =>
        \A i \in CallsOf("get_app_versions") :
            (Answered(i) /\ Len(History(i)) > 0 - TokenValue) =>
                resolved = Some(Ok(History(i)[(0 - TokenValue) + 1]))

\* "-1" over a three-entry history returns its second entry.
C1_Witness ==
    /\ Resolving
    /\ Token = <<"-", "1">>
    /\ 1 \in CallsOf("get_app_versions")
    /\ calls[1].answer = Ok(<< <<"T", "2">>, <<"T", "1">>, <<"T", "2">> >>)
    /\ resolved = Some(Ok(<<"T", "1">>))

C3_NonNegativeRejected ==
    (Resolving /\ TokenParses /\ TokenValue >= 0) =>
        /\ IsNone(Get(resolved)[1])
        /\ ~IsNone(Get(resolved)[2])
        /\ Get(Get(resolved)[2]).error = "Relative versions must be negative: {}"
        /\ CallsOf("get_app_versions") = {}
        /\ status = Some(1)

\* The token "0".
C3_Witness ==
    /\ Resolving
    /\ Token = <<"0">>
    /\ ~IsNone(Get(resolved)[2])
    /\ calls = <<>>

\* C4: a token that does not parse as an integer is returned unchanged, with
\* no error and no lookup of the history; a token that does parse is never
\* taken as an absolute version.
C4_AbsoluteUnchanged ==
    Resolving =>
        /\ ~TokenParses =>
              (resolved = Some(Ok(Token)) /\ CallsOf("get_app_versions") = {})
        /\ TokenParses =>
              (IsNone(Get(resolved)[1]) \/ CallsOf("get_app_versions") # {})

\* A token with a trailing blank that is no integer.
C4_Witness ==
    /\ Resolving
    /\ Token = <<"T", "1", " ">>
    /\ resolved = Some(Ok(<<"T", "1", " ">>))
    /\ CallsOf("get_app") = {1}

----------------------------------------------------------------------------
\* Reading the <properties> of an update.

Given == command.json_items
HasSeparator(item) == FirstSeparator(item, 1) > 0
KeyOf(item) == SubSeq(item, 1, FirstSeparator(item, 1) - 1)
Parses(item) == IsNone(parse_json_item(item, Schema)[2])
ParsedValue(item) == Get(parse_json_item(item, Schema)[1])[2]

\* The positions whose key already occurred at an earlier position.
Repeats ==
    {j \in 1..Len(Given) :
        /\ HasSeparator(Given[j])
        /\ \E i \in 1..(j - 1) :
              HasSeparator(Given[i]) /\ KeyOf(Given[i]) = KeyOf(Given[j])}
FirstRepeat == CHOOSE j \in Repeats : \A k \in Repeats : j <= k

\* The existence check of the handler answered with a descriptor.
Exists ==
    /\ Len(calls) >= 1
    /\ calls[1].op = "get_app"
    /\ IsNone(calls[1].answer[2])

\* Item j was parsed: the call after the existence check and j - 1 items.
ParsedItems == {i - 1 : i \in CallsOf("parse_json_item")}

GivenKeys == {KeyOf(Given[j]) : j \in 1..Len(Given)}
DistinctSchemaKeys ==
    /\ Given # <<>>
    /\ \A j \in 1..Len(Given) :
          HasSeparator(Given[j]) /\ KeyOf(Given[j]) \in DOMAIN Schema
    /\ \A i, j \in 1..Len(Given) :
          KeyOf(Given[i]) = KeyOf(Given[j]) => i = j

\* C5 as stated: whenever a key occurs twice, the build fails with the
\* duplicate-key message for it at the first repeated occurrence, the items
\* up to there being the only ones parsed, and nothing is validated or sent.
C5_AlwaysDuplicateKey ==
    (Done("update") /\ Exists /\ Repeats # {}) =>
        /\ published = <<SpecifiedTwice(KeyOf(Given[FirstRepeat]))>>
        /\ ParsedItems = 1..FirstRepeat
        /\ CallsOf("validate_json") = {}
        /\ CallsOf("update_app") = {}
        /\ status = Some(1)

\* C5, amended: when a key occurs twice the handler returns 1 at or before
\* the first repeated occurrence: no later item is parsed, no descriptor is
\* validated and no update is sent.  The message is the duplicate-key message
\* for that key when the application exists, every item up to that
\* occurrence parses and none before it has the key `id`.
C5_DuplicateKeyStops ==
    (Done("update") /\ Repeats # {}) =>
        /\ status = Some(1)
        /\ Len(published) = 1
        /\ \A j \in ParsedItems : j <= FirstRepeat
        /\ CallsOf("validate_json") = {}
        /\ CallsOf("update_app") = {}
        /\ (/\ Exists
            /\ \A j \in 1..FirstRepeat : Parses(Given[j])
            /\ \A j \in 1..(FirstRepeat - 1) : KeyOf(Given[j]) # IdKey)
           => (/\ published = <<SpecifiedTwice(KeyOf(Given[FirstRepeat]))>>
               /\ ParsedItems = 1..FirstRepeat)

\* cmd=x cmd=1: the second item is parsed and refused.
C5_Witness ==
    /\ Done("update")
    /\ Given = << <<"cmd", "=", "x">>, <<"cmd", "=", "1">>, <<"instances", "=", "1">> >>
    /\ published = <<SpecifiedTwice(CmdKey)>>
    /\ ParsedItems = {1, 2}

\* C6 as stated: items with pairwise-distinct keys, all in the schema, are
\* merged into a descriptor holding `id` and exactly those keys.
C6_DistinctKeysBuild ==
    (Done("update") /\ Exists /\ DistinctSchemaKeys) =>
        \E v \in CallsOf("validate_json") :
            DOMAIN calls[v].app_json = {IdKey} \cup GivenKeys

\* C6, amended: items with pairwise-distinct keys, all in the schema and none
\* of them `id`, whose values parse as the declared types, are merged without
\* error: the descriptor handed to validation holds `id` (the application id)
\* and exactly those keys, each with its parsed value, and it is that
\* descriptor which is sent when validation passes.
C6_DistinctKeysMerge ==
    (/\ Done("update") /\ Exists /\ DistinctSchemaKeys
     /\ IdKey \notin GivenKeys
     /\ \A j \in 1..Len(Given) : Parses(Given[j])) =>
        /\ ParsedItems = 1..Len(Given)
        /\ CallsOf("validate_json") = {Len(Given) + 2}
        /\ LET app_json == calls[Len(Given) + 2].app_json
           IN  /\ DOMAIN app_json = {IdKey} \cup GivenKeys
               /\ app_json[IdKey] = command.app_id
               /\ \A j \in 1..Len(Given) :
                     app_json[KeyOf(Given[j])] = ParsedValue(Given[j])
               /\ \A u \in CallsOf("update_app") : calls[u].payload = app_json
               /\ IsNone(calls[Len(Given) + 2].answer)
                     <=> CallsOf("update_app") # {}

\* instances=1 cmd=x=1 on application a, validated and sent.
C6_Witness ==
    /\ Done("update")
    /\ command.app_id = <<"a">>
    /\ Given = << <<"instances", "=", "1">>, <<"cmd", "=", "x", "=", "1">> >>
    /\ 5 \in CallsOf("update_app")
    /\ calls[5].payload = (IdKey :> <<"a">>) @@ (InstancesKey :> 1)
                          @@ (CmdKey :> <<"x", "=", "1">>)
    /\ status = Some(0)

\* C7: every handler ends with status 0 when it reported no error and with
\* status 1 when it reported one; no other or missing status.
ErrorTexts ==
    {"We currently don't support reading from the TTY.",
     "Application {!r} already started: {!r} instances.",
     "Application {!r} already stopped: {!r} instances.",
     "The number of instances must be positive: {!r}.",
     "Key {!r} was specified more than once"}
IsErrorMessage(m) ==
    \/ "error" \in DOMAIN m
    \/ "text" \in DOMAIN m /\ m.text \in ErrorTexts
ReportedError == \E i \in 1..Len(published) : IsErrorMessage(published[i])
C7_StatusZeroOrOne ==
    (pc = "done" /\ command.verb # "none") =>
        /\ status \in {Some(0), Some(1)}
        /\ status = Some(1) <=> ReportedError

\* C8: update with <properties> sends at most one update, as its last call,
\* after the existence check, the parse and duplicate check of every item in
\* order and the validation of the merged descriptor have all succeeded;
\* otherwise it publishes the first failure alone, returns 1, sends nothing.
C8_UpdateLastAfterChecks ==
    (Done("update") /\ Given # <<>>) =>
        LET n == Len(Given) IN
        /\ Cardinality(CallsOf("update_app")) <= 1
        /\ \A u \in CallsOf("update_app") :
              /\ u = n + 3 /\ Len(calls) = n + 3
              /\ Exists
              /\ \A j \in 1..n :
                    /\ calls[j + 1].op = "parse_json_item"
                    /\ calls[j + 1].json_item = Given[j]
                    /\ IsNone(calls[j + 1].answer[2])
                    /\ Get(calls[j + 1].answer[1])[1] # IdKey
                    /\ \A i \in 1..(j - 1) :
                          Get(calls[i + 1].answer[1])[1]
                              # Get(calls[j + 1].answer[1])[1]
              /\ calls[n + 2].op = "validate_json"
              /\ IsNone(calls[n + 2].answer)
              /\ calls[u].payload = calls[n + 2].app_json
              /\ IsNone(calls[u].answer[2]) <=> status = Some(0)
        /\ CallsOf("update_app") = {} =>
              /\ status = Some(1)
              /\ Len(published) = 1
              /\ IsErrorMessage(published[1])
              /\ LET last == calls[Len(calls)] IN
                 \/ last.op \in {"get_app", "parse_json_item"}
                    /\ ~IsNone(last.answer[2])
                    /\ published = <<Get(last.answer[2])>>
                 \/ last.op = "parse_json_item"
                    /\ IsNone(last.answer[2])
                    /\ published = <<SpecifiedTwice(Get(last.answer[1])[1])>>
                 \/ last.op = "validate_json"
                    /\ ~IsNone(last.answer)
                    /\ published = <<Get(last.answer)>>

\* Two items pass every check, validation refuses the descriptor.
C8_Witness ==
    /\ Done("update")
    /\ Len(Given) = 2
    /\ Len(calls) = 4
    /\ calls[4].op = "validate_json"
    /\ ~IsNone(calls[4].answer)
    /\ status = Some(1)

\* C10: start sends an update only when the application has no positive
\* instance count and the requested count (1 when omitted) is a positive
\* integer, and then sends {id, instances: count}; stop sends one only when
\* the count is positive, and then sends {instances: 0}.
Current == Get(calls[1].answer[1]).instances
C10_StartStopSubmit ==
    /\ Done("start") =>
          /\ Cardinality(CallsOf("update_app")) <= 1
          /\ \A u \in CallsOf("update_app") :
                /\ Exists /\ Current <= 0
                /\ \/ IsNone(command.instances)
                   \/ IsIntLiteral(Get(command.instances))
                /\ LET count == IF IsNone(command.instances) THEN 1
                                ELSE IntValue(Get(command.instances))
                   IN  /\ count > 0
                       /\ calls[u].payload = (IdKey :> command.app_id)
                                             @@ (InstancesKey :> count)
                /\ calls[u].app_id = command.app_id
    /\ Done("stop") =>
          /\ Cardinality(CallsOf("update_app")) <= 1
          /\ \A u \in CallsOf("update_app") :
                /\ Exists /\ Current > 0
                /\ calls[u].payload = (InstancesKey :> 0)
                /\ calls[u].app_id = command.app_id

\* start with <instances> "+2" on a stopped application.
C10_Witness ==
    /\ Done("start")
    /\ command.instances = Some(<<"+", "2">>)
    /\ 3 \in CallsOf("update_app")
    /\ calls[3].payload = (IdKey :> command.app_id) @@ (InstancesKey :> 2)
    /\ status = Some(0)

=============================================================================
